---- MODULE Spec2Model ----
(***************************************************************************)
(* A model of the Cell subsystem of auraed.                                *)
(*                                                                         *)
(* Cell (cells/cell.rs) is translated statement by statement: allocate,    *)
(* the do_free! macro behind free and kill, the CellsCache delegation of a *)
(* Cell to its children, and Drop.  The collaborators whose source is not  *)
(* part of the tree (Cells, Cgroup, NestedAuraed) are modelled from their  *)
(* documented contracts and from the way cell.rs calls them.               *)
(*                                                                         *)
(* A cell name is a sequence of segments; the cgroup directory tree and    *)
(* the nested daemon processes are kernel state keyed by the name.         *)
(***************************************************************************)
EXTENDS Integers, Sequences, FiniteSets, TLC

\* The segments the cell names are built from.
Segs == {"a", "b", "c"}

\* The cell names of the model: a, its children a/b and a/c, and a/b/c.
Paths == {<<"a">>, <<"a", "b">>, <<"a", "c">>, <<"a", "b", "c">>}

\* The CellSpec values a Cell is created with.
Specs == {"spec1", "spec2"}

DefaultSpec == "spec1"

\* How many kernel calls may fail within one operation.
MaxFaults == 1

TopPaths == {p \in Paths : Len(p) = 1}

\* CellState, with NoCell for "no Cell object of that name exists".
NoCell == "NoCell"
Unallocated == "Unallocated"
Allocated == "Allocated"
Freed == "Freed"
CellStates == {NoCell, Unallocated, Allocated, Freed}

\* CellName::parent / is_ancestor_of on segment lists.
Parent(p) == SubSeq(p, 1, Len(p) - 1)

IsChildOf(q, p) == Len(q) = Len(p) + 1 /\ SubSeq(q, 1, Len(p)) = p

IsUnder(q, p) == Len(q) > Len(p) /\ SubSeq(q, 1, Len(p)) = p

Subtree(p) == {q \in Paths : q = p \/ IsUnder(q, p)}

\* The orders in which a map is iterated (HashMap order is unspecified):
\* the two that differ on the siblings a/b and a/c.
Orders == {<<"a", "b", "c">>, <<"a", "c", "b">>}

\* The kernel calls of Cgroup and NestedAuraed that cell.rs makes.
Kinds == {"spawn", "cgroup_new", "add_task", "shutdown", "kill", "delete"}

\* A fault set names the kernel calls that fail during one operation; every
\* call but Cgroup::new (which returns no Result) can fail.
Calls(l) == {<<l[i][1], l[i][2]>> : i \in 1..Len(l)} \ ({"cgroup_new"} \X Paths)

\* The fault sets of an operation: at most MaxFaults of the calls it makes.
\* Op(F) is the operation's result under F; a call can only fail when the
\* operation, run with the earlier faults, gets to it.
FaultSets(Op(_)) ==
    LET Lv[k \in 0..MaxFaults] ==
          IF k = 0 THEN {{}}
          ELSE Lv[k - 1] \cup UNION {{F \cup {c} : c \in Calls(Op(F).S.log)} : F \in Lv[k - 1]}
    IN Lv[MaxFaults]

VARIABLES
    cells,      \* name -> CellState of the Cell object of that name
    cell_name,  \* name -> the cell_name field of that Cell
    spec,       \* name -> the spec field of that Cell
    dir,        \* name -> the cgroup directory exists
    proc,       \* name -> the nested daemon process is alive
    attached,   \* name -> the daemon's pid is in the cgroup's cgroup.procs
    dropped,    \* name -> state in which the Cell was destroyed by the last operation
    log,        \* kernel calls of the last operation: <<kind, name, ok>>
    handled,    \* errors the last operation did not return: <<how, call, name>>
    res,        \* the last operation and what it returned
    executables,\* executable name -> the Executable and its child process
    exe_res,    \* the last operation on an Executable and what it returned
    lock,       \* who holds the lock on the root map
    rpc,        \* client -> the request the Cell Service is handling for it
    server,     \* the gRPC server task
    graceful,   \* the graceful shutdown task
    returned,   \* run() has returned
    allocation, \* the last Allocation::validate call and what it returned
    inner,      \* what into_inner() of the validated Allocation returned
    root_dir,   \* inode number -> file name of the entry of the root directory
    cache,      \* the cache field of the CgroupCache: inode number -> file name
    cache_res   \* the last operation on the root directory or the CgroupCache

cellVars == <<cells, cell_name, spec, dir, proc, attached, dropped, log, handled, res>>

exeVars == <<executables, exe_res>>

svcVars == <<lock, rpc, server, graceful, returned>>

valVars == <<allocation, inner>>

obsVars == <<root_dir, cache, cache_res>>

vars == <<cellVars, exeVars, svcVars, valVars, obsVars>>

OkErr == [kind |-> "Ok", name |-> <<>>, source |-> "none"]

Err(kind, name, source) == [kind |-> kind, name |-> name, source |-> source]

NotDropped == "-"

\* The fields of a name that has no Cell, and the value an operation that
\* returns nothing is recorded with.
NoName == <<>>

NoSpec == "-"

NoVal == "-"

\* The part of the state the operations transform.
St == [cells |-> cells, cell_name |-> cell_name, spec |-> spec, dir |-> dir, proc |-> proc, attached |-> attached,
       dropped |-> [p \in Paths |-> NotDropped], log |-> <<>>, handled |-> <<>>]

Logged(S, kind, p, ok) == [S EXCEPT !.log = Append(@, <<kind, p, ok>>)]

\* What becomes of a Result that is not returned to the caller: an error is
\* written to the log ("logged") or dropped ("discarded"); Ok leaves no trace.
Handled(S, how, ok, call, p) ==
    IF ok THEN S ELSE [S EXCEPT !.handled = Append(@, <<how, call, p>>)]

(***************************************************************************)
(* NestedAuraed and Cgroup: the calls cell.rs makes on them.               *)
(***************************************************************************)

\* NestedAuraed::new: spawns the nested daemon, or fails leaving no child.
NestedAuraedNew(S, p, F) ==
    LET ok == <<"spawn", p>> \notin F
        S1 == IF ok THEN [S EXCEPT !.proc[p] = TRUE] ELSE S
    IN [S |-> Logged(S1, "spawn", p, ok), ok |-> ok]

\* NestedAuraed::shutdown / NestedAuraed::kill: on success the daemon has exited.
NestedAuraedStop(S, p, call, F) ==
    LET ok == <<call, p>> \notin F
        S1 == IF ok THEN [S EXCEPT !.proc[p] = FALSE, !.attached[p] = FALSE] ELSE S
    IN [S |-> Logged(S1, call, p, ok), ok |-> ok]

\* Dropping the NestedAuraed handle: the child dies with it (kill-on-drop).
NestedAuraedDrop(S, p) == [S EXCEPT !.proc[p] = FALSE, !.attached[p] = FALSE]

\* Cgroup::new as cell.rs uses it: the cgroup exists afterwards (allocate
\* attaches the pid right after new, and its test expects that to succeed).
CgroupNew(S, p) == Logged([S EXCEPT !.dir[p] = TRUE], "cgroup_new", p, TRUE)

\* Cgroup::add_task: writes the pid to cgroup.procs.
CgroupAddTask(S, p, F) ==
    LET ok == <<"add_task", p>> \notin F /\ S.dir[p] /\ S.proc[p]
        S1 == IF ok THEN [S EXCEPT !.attached[p] = TRUE] ELSE S
    IN [S |-> Logged(S1, "add_task", p, ok), ok |-> ok]

\* Cgroup::delete: rmdir.  An absent directory is a success; a directory with
\* a member task or with a child cgroup is busy.
CgroupDelete(S, p, F) ==
    LET busy == S.attached[p] \/ \E q \in Paths : IsChildOf(q, p) /\ S.dir[q]
        ok == ~S.dir[p] \/ (<<"delete", p>> \notin F /\ ~busy)
        S1 == IF ok THEN [S EXCEPT !.dir[p] = FALSE] ELSE S
    IN [S |-> Logged(S1, "delete", p, ok), ok |-> ok]

(***************************************************************************)
(* Cell: allocate, do_free!, Drop.                                         *)
(***************************************************************************)

\* Cell::new (cell.rs 95-97).
CellNew(S, name, cell_spec) ==
    [S EXCEPT !.cells[name] = Unallocated, !.cell_name[name] = name, !.spec[name] = cell_spec]

\* The Cell object of p is gone.
Destroyed(S, p, state) ==
    [S EXCEPT !.dropped[p] = state, !.cells[p] = NoCell,
              !.cell_name[p] = NoName, !.spec[p] = NoSpec]

\* Variants of Cell::allocate with one plausible slip each.

\* The early return is taken only for an Allocated cell: a Freed cell is
\* allocated again.
CellAllocate_ReusesFreed(S, p, F) ==
    IF S.cells[p] = Allocated THEN [S |-> S, err |-> OkErr]
    ELSE
      LET a == NestedAuraedNew(S, p, F)
      IN IF ~a.ok
         THEN [S |-> a.S, err |-> Err("FailedToAllocateCell", p, "spawn")]
         ELSE
           LET c == CgroupNew(a.S, p)
               t == CgroupAddTask(c, p, F)
           IN IF ~t.ok
              THEN LET k == NestedAuraedStop(t.S, p, "kill", F)
                       d == CgroupDelete(k.S, p, F)
                   IN [S |-> NestedAuraedDrop(d.S, p),
                       err |-> Err("AbortedAllocateCell", p, "add_task")]
              ELSE [S |-> [t.S EXCEPT !.cells[p] = Allocated], err |-> OkErr]

\* The early return is taken only for a Freed cell: an Allocated cell is
\* allocated again.
CellAllocate_ReallocatesAllocated(S, p, F) ==
    IF S.cells[p] = Freed THEN [S |-> S, err |-> OkErr]
    ELSE
      LET a == NestedAuraedNew(S, p, F)
      IN IF ~a.ok
         THEN [S |-> a.S, err |-> Err("FailedToAllocateCell", p, "spawn")]
         ELSE
           LET c == CgroupNew(a.S, p)
               t == CgroupAddTask(c, p, F)
           IN IF ~t.ok
              THEN LET k == NestedAuraedStop(t.S, p, "kill", F)
                       d == CgroupDelete(k.S, p, F)
                   IN [S |-> NestedAuraedDrop(d.S, p),
                       err |-> Err("AbortedAllocateCell", p, "add_task")]
              ELSE [S |-> [t.S EXCEPT !.cells[p] = Allocated], err |-> OkErr]

\* The abort branch cleans up but does not return: the cell becomes Allocated.
CellAllocate_NoAbortReturn(S, p, F) ==
    IF S.cells[p] # Unallocated THEN [S |-> S, err |-> OkErr]
    ELSE
      LET a == NestedAuraedNew(S, p, F)
      IN IF ~a.ok
         THEN [S |-> a.S, err |-> Err("FailedToAllocateCell", p, "spawn")]
         ELSE
           LET c == CgroupNew(a.S, p)
               t == CgroupAddTask(c, p, F)
           IN IF ~t.ok
              THEN LET k == NestedAuraedStop(t.S, p, "kill", F)
                       d == CgroupDelete(k.S, p, F)
                   IN [S |-> [d.S EXCEPT !.cells[p] = Allocated], err |-> OkErr]
              ELSE [S |-> [t.S EXCEPT !.cells[p] = Allocated], err |-> OkErr]

\* The abort branch deletes the cgroup before it kills the daemon.
CellAllocate_DeleteBeforeKill(S, p, F) ==
    IF S.cells[p] # Unallocated THEN [S |-> S, err |-> OkErr]
    ELSE
      LET a == NestedAuraedNew(S, p, F)
      IN IF ~a.ok
         THEN [S |-> a.S, err |-> Err("FailedToAllocateCell", p, "spawn")]
         ELSE
           LET c == CgroupNew(a.S, p)
               t == CgroupAddTask(c, p, F)
           IN IF ~t.ok
              THEN LET d == CgroupDelete(t.S, p, F)
                       k == NestedAuraedStop(d.S, p, "kill", F)
                   IN [S |-> NestedAuraedDrop(k.S, p),
                       err |-> Err("AbortedAllocateCell", p, "add_task")]
              ELSE [S |-> [t.S EXCEPT !.cells[p] = Allocated], err |-> OkErr]

\* The abort branch kills the daemon and leaves the cgroup.
CellAllocate_NoDeleteOnAbort(S, p, F) ==
    IF S.cells[p] # Unallocated THEN [S |-> S, err |-> OkErr]
    ELSE
      LET a == NestedAuraedNew(S, p, F)
      IN IF ~a.ok
         THEN [S |-> a.S, err |-> Err("FailedToAllocateCell", p, "spawn")]
         ELSE
           LET c == CgroupNew(a.S, p)
               t == CgroupAddTask(c, p, F)
           IN IF ~t.ok
              THEN LET k == NestedAuraedStop(t.S, p, "kill", F)
                   IN [S |-> NestedAuraedDrop(k.S, p),
                       err |-> Err("AbortedAllocateCell", p, "add_task")]
              ELSE [S |-> [t.S EXCEPT !.cells[p] = Allocated], err |-> OkErr]

\* add_task is called before the Cgroup is constructed.
CellAllocate_AttachBeforeNew(S, p, F) ==
    IF S.cells[p] # Unallocated THEN [S |-> S, err |-> OkErr]
    ELSE
      LET a == NestedAuraedNew(S, p, F)
      IN IF ~a.ok
         THEN [S |-> a.S, err |-> Err("FailedToAllocateCell", p, "spawn")]
         ELSE
           LET t == CgroupAddTask(a.S, p, F)
               c == CgroupNew(t.S, p)
           IN IF ~t.ok
              THEN LET k == NestedAuraedStop(c, p, "kill", F)
                       d == CgroupDelete(k.S, p, F)
                   IN [S |-> NestedAuraedDrop(d.S, p),
                       err |-> Err("AbortedAllocateCell", p, "add_task")]
              ELSE [S |-> [c EXCEPT !.cells[p] = Allocated], err |-> OkErr]

\* Cell::allocate (cell.rs 102-139).  The results of the kill and the delete
\* of the abort branch are bound to _best_effort and dropped.
CellAllocate(S, p, F) ==
    IF S.cells[p] # Unallocated THEN [S |-> S, err |-> OkErr]
    ELSE
      LET a == NestedAuraedNew(S, p, F)
      IN IF ~a.ok
         THEN [S |-> a.S, err |-> Err("FailedToAllocateCell", p, "spawn")]
         ELSE
           LET c == CgroupNew(a.S, p)
               t == CgroupAddTask(c, p, F)
           IN IF ~t.ok
              THEN LET k == NestedAuraedStop(t.S, p, "kill", F)
                       d == CgroupDelete(Handled(k.S, "discarded", k.ok, "kill", p), p, F)
                   IN [S |-> NestedAuraedDrop(Handled(d.S, "discarded", d.ok, "delete", p), p),
                       err |-> Err("AbortedAllocateCell", p, "add_task")]
              ELSE [S |-> [t.S EXCEPT !.cells[p] = Allocated], err |-> OkErr]

RECURSIVE DoFree(_, _, _, _, _)
RECURSIVE Broadcast(_, _, _, _, _, _)
RECURSIVE DropCell(_, _, _, _)
RECURSIVE DropChildren(_, _, _, _, _)

\* The call on the nested daemon that free (shutdown) and kill (kill) make.
StopCall(mode) == IF mode = "free" THEN "shutdown" ELSE "kill"

\* do_free! with the result of cgroup.delete() discarded instead of returned.
DoFree_IgnoresDeleteError(S, p, mode, F, ord) ==
    IF S.cells[p] = Allocated
    THEN
      LET S1 == Broadcast(S, p, mode, F, ord, 1)
          n == NestedAuraedStop(S1, p, StopCall(mode), F)
      IN IF ~n.ok
         THEN [S |-> n.S, err |-> Err("FailedToKillCellChildren", p, StopCall(mode))]
         ELSE
           LET d == CgroupDelete(n.S, p, F)
           IN [S |-> [DropChildren(NestedAuraedDrop(d.S, p), p, F, ord, 1)
                        EXCEPT !.cells[p] = Freed],
               err |-> OkErr]
    ELSE [S |-> [S EXCEPT !.cells[p] = Freed], err |-> OkErr]

\* do_free! without the cgroup.delete() call.
DoFree_NoDelete(S, p, mode, F, ord) ==
    IF S.cells[p] = Allocated
    THEN
      LET S1 == Broadcast(S, p, mode, F, ord, 1)
          n == NestedAuraedStop(S1, p, StopCall(mode), F)
      IN IF ~n.ok
         THEN [S |-> n.S, err |-> Err("FailedToKillCellChildren", p, StopCall(mode))]
         ELSE [S |-> [DropChildren(NestedAuraedDrop(n.S, p), p, F, ord, 1)
                        EXCEPT !.cells[p] = Freed],
               err |-> OkErr]
    ELSE [S |-> [S EXCEPT !.cells[p] = Freed], err |-> OkErr]

\* do_free! that stops the cell's own daemon before it broadcasts to the
\* children.
DoFree_StopsBeforeBroadcast(S, p, mode, F, ord) ==
    IF S.cells[p] = Allocated
    THEN
      LET n == NestedAuraedStop(S, p, StopCall(mode), F)
      IN IF ~n.ok
         THEN [S |-> n.S, err |-> Err("FailedToKillCellChildren", p, StopCall(mode))]
         ELSE
           LET S1 == Broadcast(n.S, p, mode, F, ord, 1)
               d == CgroupDelete(S1, p, F)
           IN IF ~d.ok
              THEN [S |-> d.S, err |-> Err("FailedToFreeCell", p, "delete")]
              ELSE [S |-> [DropChildren(NestedAuraedDrop(d.S, p), p, F, ord, 1)
                             EXCEPT !.cells[p] = Freed],
                    err |-> OkErr]
    ELSE [S |-> [S EXCEPT !.cells[p] = Freed], err |-> OkErr]

\* do_free! that discards the result of the call on the nested daemon and
\* goes on to delete the cgroup.
DoFree_DeletesAfterFailedStop(S, p, mode, F, ord) ==
    IF S.cells[p] = Allocated
    THEN
      LET S1 == Broadcast(S, p, mode, F, ord, 1)
          n == NestedAuraedStop(S1, p, StopCall(mode), F)
          d == CgroupDelete(n.S, p, F)
      IN IF ~d.ok
         THEN [S |-> d.S, err |-> Err("FailedToFreeCell", p, "delete")]
         ELSE [S |-> [DropChildren(NestedAuraedDrop(d.S, p), p, F, ord, 1)
                        EXCEPT !.cells[p] = Freed],
               err |-> OkErr]
    ELSE [S |-> [S EXCEPT !.cells[p] = Freed], err |-> OkErr]

\* do_free! that sets the state to Freed only on the Allocated path.
DoFree_KeepsUnallocated(S, p, mode, F, ord) ==
    IF S.cells[p] = Allocated
    THEN
      LET S1 == Broadcast(S, p, mode, F, ord, 1)
          n == NestedAuraedStop(S1, p, StopCall(mode), F)
      IN IF ~n.ok
         THEN [S |-> n.S, err |-> Err("FailedToKillCellChildren", p, StopCall(mode))]
         ELSE
           LET d == CgroupDelete(n.S, p, F)
           IN IF ~d.ok
              THEN [S |-> d.S, err |-> Err("FailedToFreeCell", p, "delete")]
              ELSE [S |-> [DropChildren(NestedAuraedDrop(d.S, p), p, F, ord, 1)
                             EXCEPT !.cells[p] = Freed],
                    err |-> OkErr]
    ELSE [S |-> S, err |-> OkErr]

\* do_free! (cell.rs 42-73), instantiated by Cell::free and Cell::kill.
DoFree(S, p, mode, F, ord) ==
    IF S.cells[p] = Allocated
    THEN
      LET S1 == Broadcast(S, p, mode, F, ord, 1)
          n == NestedAuraedStop(S1, p, StopCall(mode), F)
      IN IF ~n.ok
         THEN [S |-> n.S, err |-> Err("FailedToKillCellChildren", p, StopCall(mode))]
         ELSE
           LET d == CgroupDelete(n.S, p, F)
           IN IF ~d.ok
              THEN [S |-> d.S, err |-> Err("FailedToFreeCell", p, "delete")]
              ELSE [S |-> [DropChildren(NestedAuraedDrop(d.S, p), p, F, ord, 1)
                             EXCEPT !.cells[p] = Freed],
                    err |-> OkErr]
    ELSE [S |-> [S EXCEPT !.cells[p] = Freed], err |-> OkErr]

\* A broadcast that ends at the first entry whose free (kill) failed.
Broadcast_StopsAtFailure(S, p, mode, F, ord, i) ==
    IF i > Len(ord) THEN S
    ELSE
      LET c == Append(p, ord[i])
          here == c \in Paths /\ S.cells[c] # NoCell
          r == DoFree(S, c, mode, F, ord)
      IN IF here /\ r.err # OkErr THEN r.S
         ELSE Broadcast(IF here THEN r.S ELSE S, p, mode, F, ord, i + 1)

\* A broadcast that drops the errors of the entries without logging them.
Broadcast_DiscardsErrors(S, p, mode, F, ord, i) ==
    IF i > Len(ord) THEN S
    ELSE
      LET c == Append(p, ord[i])
          r == DoFree(S, c, mode, F, ord)
          S1 == IF c \notin Paths \/ S.cells[c] = NoCell THEN S
                ELSE Handled(r.S, "discarded", r.err = OkErr, r.err.source, r.err.name)
      IN Broadcast(S1, p, mode, F, ord, i + 1)

\* Cells::broadcast_free / broadcast_kill on the children of p: every entry is
\* freed (killed) in map order and stays in the map; the results are not
\* returned: an error is logged.
Broadcast(S, p, mode, F, ord, i) ==
    IF i > Len(ord) THEN S
    ELSE
      LET c == Append(p, ord[i])
          r == DoFree(S, c, mode, F, ord)
          S1 == IF c \notin Paths \/ S.cells[c] = NoCell THEN S
                ELSE Handled(r.S, "logged", r.err = OkErr, r.err.source, r.err.name)
      IN Broadcast(S1, p, mode, F, ord, i + 1)

\* Drop for Cell calling free() where the code calls kill().
DropCell_Graceful(S, p, F, ord) ==
    LET k == DoFree(S, p, "free", F, ord).S
        S1 == IF k.cells[p] = Allocated
              THEN DropChildren(NestedAuraedDrop(k, p), p, F, ord, 1)
              ELSE k
    IN Destroyed(S1, p, k.cells[p])

\* Drop for Cell (cell.rs 248-256), then the drop of the fields still owned.
\* The result of kill() is bound to _best_effort and dropped.
DropCell(S, p, F, ord) ==
    LET r == DoFree(S, p, "kill", F, ord)
        k == Handled(r.S, "discarded", r.err = OkErr, r.err.source, r.err.name)
        S1 == IF k.cells[p] = Allocated
              THEN DropChildren(NestedAuraedDrop(k, p), p, F, ord, 1)
              ELSE k
    IN Destroyed(S1, p, k.cells[p])

\* Dropping the Cells map of p drops every Cell it holds.
DropChildren(S, p, F, ord, i) ==
    IF i > Len(ord) THEN S
    ELSE
      LET c == Append(p, ord[i])
          S1 == IF c \notin Paths \/ S.cells[c] = NoCell THEN S ELSE DropCell(S, c, F, ord)
      IN DropChildren(S1, p, F, ord, i + 1)

\* Cell::name and Cell::spec (cell.rs 171-177).
CellNameOf(S, p) == S.cell_name[p]

CellSpecOf(S, p) == S.spec[p]

\* Cell::free and Cell::kill (cell.rs 147-156).
CellFree(S, p, F, ord) == DoFree(S, p, "free", F, ord)

CellKill(S, p, F, ord) == DoFree(S, p, "kill", F, ord)

(***************************************************************************)
(* Cells, the name-keyed map of one level, and the CellsCache delegation   *)
(* of a Cell to the map of its children.  lvl is the name of the Cell that *)
(* owns the map, <<>> for the root map.                                    *)
(***************************************************************************)

\* The entry of the map of lvl that name is, or is routed through.
EntryOf(lvl, name) == SubSeq(name, 1, Len(lvl) + 1)

AnyOrder == CHOOSE o \in Orders : TRUE

\* The orders that can differ in the current state: a map is iterated in one
\* way unless it holds two Cells.
LiveOrders ==
    IF \E p, q \in Paths : p # q /\ Len(p) = Len(q) /\ cells[p] # NoCell /\ cells[q] # NoCell
    THEN Orders ELSE {AnyOrder}

RECURSIVE CellsAllocate(_, _, _, _, _)
RECURSIVE CellsFree(_, _, _, _, _, _)
RECURSIVE CellsGet(_, _, _)
RECURSIVE CellsCellGraph(_, _, _)

\* CellsCache::allocate of a Cell that refuses only an Unallocated Cell.
CellCacheAllocate_ForwardsWhenFreed(S, p, name, cell_spec, F) ==
    IF S.cells[p] = Unallocated
    THEN [S |-> S, err |-> Err("CellNotAllocated", p, "none")]
    ELSE CellsAllocate(S, p, name, cell_spec, F)

\* impl CellsCache for Cell: allocate (cell.rs 190-200).
CellCacheAllocate(S, p, name, cell_spec, F) ==
    IF S.cells[p] # Allocated
    THEN [S |-> S, err |-> Err("CellNotAllocated", p, "none")]
    ELSE CellsAllocate(S, p, name, cell_spec, F)

\* impl CellsCache for Cell: free (cell.rs 202-208).
CellCacheFree(S, p, name, F, ord, keep) ==
    IF S.cells[p] # Allocated
    THEN [S |-> S, err |-> Err("CellNotAllocated", p, "none")]
    ELSE CellsFree(S, p, name, F, ord, keep)

\* impl CellsCache for Cell: broadcast_free / broadcast_kill (cell.rs 221-235).
CellBroadcast(S, p, mode, F, ord) ==
    IF S.cells[p] # Allocated THEN S ELSE Broadcast(S, p, mode, F, ord, 1)

\* impl CellsCache for Cell: get (cell.rs 210-219).
CellCacheGet(S, p, name) ==
    IF S.cells[p] # Allocated
    THEN [S |-> S, err |-> Err("CellNotAllocated", p, "none")]
    ELSE CellsGet(S, p, name)

\* cell_graph that moves the spec into the graph node instead of cloning it.
CellCacheCellGraph_TakesSpec(S, p, strict) ==
    IF S.cells[p] # Allocated
    THEN [S |-> S, err |-> Err("CellNotAllocated", p, "none")]
    ELSE CellsCellGraph([S EXCEPT !.spec[p] = DefaultSpec], p, strict)

\* impl CellsCache for Cell: cell_graph (cell.rs 237-245).
CellCacheCellGraph(S, p, strict) ==
    IF S.cells[p] # Allocated
    THEN [S |-> S, err |-> Err("CellNotAllocated", p, "none")]
    ELSE CellsCellGraph(S, p, strict)

\* Cells::get: traverses to the named Cell and runs the read-only function.
CellsGet(S, lvl, name) ==
    LET head == EntryOf(lvl, name)
    IN IF S.cells[head] = NoCell
       THEN [S |-> S, err |-> Err("CellNotFound", head, "none")]
       ELSE IF head # name
            THEN CellCacheGet(S, head, name)
            ELSE [S |-> S, err |-> OkErr]

\* Cells::cell_graph: asks every Cell of the map for its graph.  The contract
\* does not say whether the error of a Cell that is not Allocated ends the
\* traversal: strict chooses.
CellsCellGraph(S, lvl, strict) ==
    LET kids == {c \in Paths : IsChildOf(c, lvl) /\ S.cells[c] # NoCell}
        errs == {e \in {CellCacheCellGraph(S, c, strict).err : c \in kids} : e # OkErr}
    IN [S |-> S, err |-> IF strict /\ errs # {} THEN CHOOSE e \in errs : TRUE ELSE OkErr]

\* Cells::allocate that replaces the entry of a name already in the map.
CellsAllocate_ReplacesExisting(S, lvl, name, cell_spec, F) ==
    LET head == EntryOf(lvl, name)
    IN IF head # name
       THEN IF S.cells[head] = NoCell
            THEN [S |-> S, err |-> Err("CellNotFound", head, "none")]
            ELSE CellCacheAllocate(S, head, name, cell_spec, F)
       ELSE LET r == CellAllocate(CellNew(S, name, cell_spec), name, F)
            IN IF r.err = OkErr THEN r
               ELSE [S |-> DropCell(r.S, name, F, AnyOrder), err |-> r.err]

\* Cells::allocate: a deeper name is forwarded to the entry it goes through;
\* at its own level the name must be new, and the new Cell is kept only if
\* Cell::allocate succeeded.
CellsAllocate(S, lvl, name, cell_spec, F) ==
    LET head == EntryOf(lvl, name)
    IN IF head # name
       THEN IF S.cells[head] = NoCell
            THEN [S |-> S, err |-> Err("CellNotFound", head, "none")]
            ELSE CellCacheAllocate(S, head, name, cell_spec, F)
       ELSE IF S.cells[name] # NoCell
            THEN [S |-> S, err |-> Err("CellExists", name, "none")]
            ELSE LET r == CellAllocate(CellNew(S, name, cell_spec), name, F)
                 IN IF r.err = OkErr THEN r
                    ELSE [S |-> DropCell(r.S, name, F, AnyOrder), err |-> r.err]

\* Cells::free: the named Cell is freed and removed from the map.  The
\* contract does not say whether a Cell whose free failed stays in the map:
\* keep chooses.
CellsFree(S, lvl, name, F, ord, keep) ==
    LET head == EntryOf(lvl, name)
    IN IF S.cells[head] = NoCell
       THEN [S |-> S, err |-> Err("CellNotFound", head, "none")]
       ELSE IF head # name
            THEN CellCacheFree(S, head, name, F, ord, keep)
            ELSE LET r == CellFree(S, name, F, ord)
                 IN IF r.err # OkErr /\ keep THEN r
                    ELSE [S |-> DropCell(r.S, name, F, ord), err |-> r.err]

\* Dropping the root map drops every Cell in it.
CellsDrop(S, F, ord) == DropChildren(S, <<>>, F, ord, 1)

(***************************************************************************)
(* Executable (executables/executable.rs): a child process with the states *)
(* Init, Started and Stopped(exit status).                                  *)
(***************************************************************************)

\* The names of the executables.
ExeNames == {"x", "y"}

\* How many children the model lets one Executable spawn, and how many
\* SIGKILLs it lets one Executable send.
MaxSpawns == 2

MaxSignals == 2

ExeInit == "Init"
ExeStarted == "Started"
ExeStopped == "Stopped"

\* The exit statuses a child can end with; NoStatus outside Stopped.
ExitStatuses == {"signal9", "exit0"}

NoStatus == "-"

\* What an operation returns: Ok(val) or Err.
Ret(kind, val) == [kind |-> kind, val |-> val]

\* Executable::new (executable.rs 69-73): state Init, nothing spawned.
\* alive: the child process runs; reaped: the Child handle has been waited
\* on to completion, after which Child::id() is None.
ExecutableNew ==
    [state |-> ExeInit, status |-> NoStatus, alive |-> FALSE, reaped |-> FALSE,
     spawns |-> 0, signals |-> 0, tasks |-> 0]

\* start() that returns early only for a Started executable.
ExecutableStart_RestartsStopped(e, fail) ==
    IF e.state = ExeStarted THEN [e |-> e, ret |-> Ret("Ok", "unit")]
    ELSE IF fail THEN [e |-> e, ret |-> Ret("Err", "spawn")]
    ELSE [e |-> [e EXCEPT !.state = ExeStarted, !.alive = TRUE, !.reaped = FALSE,
                          !.spawns = @ + 1, !.tasks = @ + 2],
          ret |-> Ret("Ok", "unit")]

\* start() that returns early only for a Stopped executable.
ExecutableStart_RespawnsStarted(e, fail) ==
    IF e.state = ExeStopped THEN [e |-> e, ret |-> Ret("Ok", "unit")]
    ELSE IF fail THEN [e |-> e, ret |-> Ret("Err", "spawn")]
    ELSE [e |-> [e EXCEPT !.state = ExeStarted, !.alive = TRUE, !.reaped = FALSE,
                          !.spawns = @ + 1, !.tasks = @ + 2],
          ret |-> Ret("Ok", "unit")]

\* Executable::start (executable.rs 77-138).  fail: command.spawn() fails.
ExecutableStart(e, fail) ==
    IF e.state # ExeInit THEN [e |-> e, ret |-> Ret("Ok", "unit")]
    ELSE IF fail THEN [e |-> e, ret |-> Ret("Err", "spawn")]
    ELSE [e |-> [e EXCEPT !.state = ExeStarted, !.alive = TRUE, !.reaped = FALSE,
                          !.spawns = @ + 1, !.tasks = @ + 2],
          ret |-> Ret("Ok", "unit")]

\* kill() whose Stopped arm kills and waits again instead of returning the
\* stored status.
ExecutableKill_KillsAgain(e, fault, status) ==
    IF e.state = ExeInit THEN [e |-> e, ret |-> Ret("Ok", "None")]
    ELSE IF fault = "kill" THEN [e |-> e, ret |-> Ret("Err", "kill")]
    ELSE
      LET k == [e EXCEPT !.alive = FALSE, !.reaped = TRUE, !.signals = @ + 1]
      IN IF fault = "wait" THEN [e |-> k, ret |-> Ret("Err", "wait")]
         ELSE [e |-> [k EXCEPT !.state = ExeStopped, !.status = status, !.tasks = 0],
               ret |-> Ret("Ok", status)]

\* kill() that stores Stopped before it waits for the child, so that a failed
\* wait() leaves the executable Stopped with its log tasks not joined.
ExecutableKill_StopsBeforeWait(e, fault, status) ==
    IF e.state = ExeInit THEN [e |-> e, ret |-> Ret("Ok", "None")]
    ELSE IF e.state = ExeStopped THEN [e |-> e, ret |-> Ret("Ok", e.status)]
    ELSE IF fault = "kill" THEN [e |-> e, ret |-> Ret("Err", "kill")]
    ELSE
      LET k == [e EXCEPT !.alive = FALSE, !.reaped = TRUE, !.signals = @ + 1,
                         !.state = ExeStopped, !.status = status]
      IN IF fault = "wait" THEN [e |-> k, ret |-> Ret("Err", "wait")]
         ELSE [e |-> [k EXCEPT !.tasks = 0], ret |-> Ret("Ok", status)]

\* Executable::kill (executable.rs 142-154).  fault: child.kill() or
\* child.wait() fails; status: the exit status wait() returns.  child.kill()
\* sends SIGKILL and waits for the child, so the child is reaped when it
\* returns Ok.
ExecutableKill(e, fault, status) ==
    IF e.state = ExeInit THEN [e |-> e, ret |-> Ret("Ok", "None")]
    ELSE IF e.state = ExeStopped THEN [e |-> e, ret |-> Ret("Ok", e.status)]
    ELSE IF fault = "kill" THEN [e |-> e, ret |-> Ret("Err", "kill")]
    ELSE
      LET k == [e EXCEPT !.alive = FALSE, !.reaped = TRUE, !.signals = @ + 1]
      IN IF fault = "wait" THEN [e |-> k, ret |-> Ret("Err", "wait")]
         ELSE [e |-> [k EXCEPT !.state = ExeStopped, !.status = status, !.tasks = 0],
               ret |-> Ret("Ok", status)]

\* pid() that returns the Pid of every Started executable.
ExecutablePid_IgnoresReaped(e) ==
    IF e.state # ExeStarted THEN [e |-> e, ret |-> Ret("Ok", "None")]
    ELSE [e |-> e, ret |-> Ret("Ok", "pid")]

\* Executable::pid (executable.rs 157-163).  Child::id() is None once the
\* child has been waited on to completion, Some(pid) until then.
ExecutablePid(e) ==
    IF e.state # ExeStarted THEN [e |-> e, ret |-> Ret("Ok", "None")]
    ELSE IF e.reaped THEN [e |-> e, ret |-> Ret("Ok", "None")]
    ELSE [e |-> e, ret |-> Ret("Ok", "pid")]

(***************************************************************************)
(* Allocation (cells/cgroups/allocation.rs): a validated i64.  The helpers *)
(* of the validation crate are modelled from their contract.               *)
(***************************************************************************)

\* The inputs of validate are None and Some(v) for v in -MaxAlloc..MaxAlloc.
MaxAlloc == 8

None == "None"

\* Option<i64>: the empty tuple for None, <<v>> for Some(v).
NoInput == <<>>

Some(v) == <<v>>

AllocInputs == {NoInput} \cup {Some(v) : v \in -MaxAlloc..MaxAlloc}

\* The field and parent names validate is called with.
FieldNames == {"max", "low"}

ParentNames == {None, "cpu", "memory"}

ValidationError(kind, field_name, parent_name) ==
    [kind |-> kind, field |-> field_name, parent |-> parent_name]

\* validation::required: the value of a present input.
ValidationRequired(input, field_name, parent_name) ==
    IF input = NoInput
    THEN [ok |-> FALSE, err |-> ValidationError("Required", field_name, parent_name)]
    ELSE [ok |-> TRUE, val |-> input[1]]

\* validation::minimum_value: the value must not be below minimum.
ValidationMinimumValue(value, minimum, field_name, parent_name) ==
    IF value < minimum
    THEN [ok |-> FALSE, err |-> ValidationError("Minimum", field_name, parent_name)]
    ELSE [ok |-> TRUE]

\* The tuple struct Allocation(i64) and into_inner (allocation.rs 37-47).
AllocationOf(v) == <<"Allocation", v>>

AllocationIntoInner(a) == a[2]

\* validate with the minimum 1 instead of 0.
AllocationValidate_RejectsZero(input, field_name, parent_name) ==
    LET r == ValidationRequired(input, field_name, parent_name)
    IN IF ~r.ok THEN [kind |-> "Err", err |-> r.err]
       ELSE LET m == ValidationMinimumValue(r.val, 1, field_name, parent_name)
            IN IF ~m.ok THEN [kind |-> "Err", err |-> m.err]
               ELSE [kind |-> "Ok", val |-> AllocationOf(r.val)]

\* Allocation::validate (allocation.rs 35-47).
AllocationValidate(input, field_name, parent_name) ==
    LET r == ValidationRequired(input, field_name, parent_name)
    IN IF ~r.ok THEN [kind |-> "Err", err |-> r.err]
       ELSE LET m == ValidationMinimumValue(r.val, 0, field_name, parent_name)
            IN IF ~m.ok THEN [kind |-> "Err", err |-> m.err]
               ELSE [kind |-> "Ok", val |-> AllocationOf(r.val)]

(***************************************************************************)
(* CgroupCache (observe/cgroup_cache.rs): file names of the entries of a   *)
(* root directory, looked up by inode number.                              *)
(***************************************************************************)

\* The inode numbers and the file names of the root directory.
Inos == {1, 2}

FileNames == {"f", "g", "h"}

NoFile == "-"

\* How many entries one read_dir may fail to read.
MaxReadErrors == 1

\* CgroupCache::new (cgroup_cache.rs 43-45): an empty cache.
CgroupCacheNew == [i \in Inos |-> NoFile]

\* refresh_cache that rebuilds the cache from the directory.
CgroupCacheRefresh_Rebuilds(c, d, bad) ==
    [i \in Inos |-> IF d[i] # NoFile /\ i \notin bad THEN d[i] ELSE NoFile]

\* CgroupCache::refresh_cache (cgroup_cache.rs 56-69): every entry of the
\* directory d that can be read is inserted; bad: the entries whose read fails.
CgroupCacheRefresh(c, d, bad) ==
    [i \in Inos |-> IF d[i] # NoFile /\ i \notin bad THEN d[i] ELSE c[i]]

\* get that looks only at the cache.
CgroupCacheGet_NoRefresh(c, d, ino, bad) ==
    [cache |-> c, ret |-> IF c[ino] # NoFile THEN c[ino] ELSE None, hit |-> c[ino] # NoFile]

\* CgroupCache::get (cgroup_cache.rs 47-54).
CgroupCacheGet(c, d, ino, bad) ==
    IF c[ino] # NoFile
    THEN [cache |-> c, ret |-> c[ino], hit |-> TRUE]
    ELSE LET c1 == CgroupCacheRefresh(c, d, bad)
         IN [cache |-> c1, ret |-> IF c1[ino] # NoFile THEN c1[ino] ELSE None, hit |-> FALSE]

(***************************************************************************)
(* The daemon (lib.rs run::inner): the gRPC server task that serves the    *)
(* Cell Service, the graceful shutdown task, and the join of the two.  The *)
(* Cell Service and GracefulShutdown themselves are modelled from their    *)
(* contract: every operation runs under one exclusive lock on the root map.*)
(***************************************************************************)

\* The clients with a request in flight, and the names they ask for.
Clients == {"c1", "c2"}

ServicePaths == {<<"a">>, <<"a", "b">>}

ServiceOps == {"allocate", "free", "list"}

NoHolder == "none"

Idle == [pc |-> "idle"]

\* The request of a client: the operation, its name, and the outcomes of the
\* environment during it (F: the kernel calls that fail; flag: keep or strict).
Request(op, name) == [pc |-> "waiting", op |-> op, name |-> name]

\* The operation on the root map that a request runs.
Run(S, q, F, flag) ==
    IF q.op = "allocate" THEN CellsAllocate(S, <<>>, q.name, DefaultSpec, F)
    ELSE IF q.op = "free" THEN CellsFree(S, <<>>, q.name, F, AnyOrder, flag)
    ELSE CellsCellGraph(S, <<>>, flag)

\* The tree an operation read or wrote.
Tree(S) == <<S.cells, S.cell_name, S.spec, S.dir, S.proc, S.attached>>

(***************************************************************************)
(* The state machine.                                                      *)
(***************************************************************************)

Init ==
    /\ cells = [p \in Paths |-> NoCell]
    /\ cell_name = [p \in Paths |-> NoName]
    /\ spec = [p \in Paths |-> NoSpec]
    /\ dir = [p \in Paths |-> FALSE]
    /\ proc = [p \in Paths |-> FALSE]
    /\ attached = [p \in Paths |-> FALSE]
    /\ dropped = [p \in Paths |-> NotDropped]
    /\ log = <<>>
    /\ handled = <<>>
    /\ res = [op |-> "init", target |-> <<>>, was |-> NoCell, err |-> OkErr, val |-> NoVal]
    /\ executables = [x \in ExeNames |-> ExecutableNew]
    /\ exe_res = [op |-> "new", name |-> "-", was |-> ExeInit, ret |-> Ret("Ok", "unit")]
    /\ lock = NoHolder
    /\ rpc = [c \in Clients |-> Idle]
    /\ server = "serving"
    /\ graceful = "waiting"
    /\ returned = FALSE
    /\ allocation = [input |-> NoInput, field |-> "-", parent |-> None, ret |-> [kind |-> "none"]]
    /\ inner = NoInput
    /\ root_dir = [i \in Inos |-> NoFile]
    /\ cache = CgroupCacheNew
    /\ cache_res = [op |-> "new", ino |-> 0, ret |-> None, hit |-> FALSE, bad |-> {}]

\* The state of the Cell named p, NoCell for the root map's name <<>>.
StateOf(p) == IF p \in Paths THEN cells[p] ELSE NoCell

\* The state after an operation op on target that returned r; val is the
\* CellSpec the operation was given or the value an accessor returned.
CommitVal(op, target, r, val) ==
    /\ cells' = r.S.cells
    /\ cell_name' = r.S.cell_name
    /\ spec' = r.S.spec
    /\ dir' = r.S.dir
    /\ proc' = r.S.proc
    /\ attached' = r.S.attached
    /\ dropped' = r.S.dropped
    /\ log' = r.S.log
    /\ handled' = r.S.handled
    /\ res' = [op |-> op, target |-> target, was |-> StateOf(target), err |-> r.err,
               val |-> val]
    /\ UNCHANGED <<exeVars, svcVars, valVars, obsVars>>

Commit(op, target, r) == CommitVal(op, target, r, NoVal)

(* A standalone Cell, driven through its own methods as test_cant_unfree    *)
(* does, and through its CellsCache methods.                                *)

NewCell(p, cell_spec) ==
    /\ cells[p] = NoCell
    /\ CommitVal("new", p, [S |-> CellNew(St, p, cell_spec), err |-> OkErr], cell_spec)

New(p) == NewCell(p, DefaultSpec)

AllocateCell(p) ==
    /\ cells[p] # NoCell
    /\ LET Op(F) == CellAllocate(St, p, F)
       IN \E F \in FaultSets(Op) : Commit("allocate", p, Op(F))

FreeCell(p) ==
    /\ cells[p] # NoCell
    /\ \E ord \in LiveOrders :
         LET Op(F) == CellFree(St, p, F, ord)
         IN \E F \in FaultSets(Op) : Commit("free", p, Op(F))

KillCell(p) ==
    /\ cells[p] # NoCell
    /\ \E ord \in LiveOrders :
         LET Op(F) == CellKill(St, p, F, ord)
         IN \E F \in FaultSets(Op) : Commit("kill", p, Op(F))

Drop(p) ==
    /\ cells[p] # NoCell
    /\ \E ord \in LiveOrders :
         LET Op(F) == [S |-> DropCell(St, p, F, ord), err |-> OkErr]
         IN \E F \in FaultSets(Op) : Commit("drop", p, Op(F))

CacheAllocateCell(p, name, cell_spec) ==
    /\ cells[p] # NoCell
    /\ LET Op(F) == CellCacheAllocate(St, p, name, cell_spec, F)
       IN \E F \in FaultSets(Op) : CommitVal("cache_allocate", name, Op(F), cell_spec)

CacheAllocate(p, name) == CacheAllocateCell(p, name, DefaultSpec)

CacheFree(p, name) ==
    /\ cells[p] # NoCell
    /\ \E ord \in LiveOrders, keep \in BOOLEAN :
         LET Op(F) == CellCacheFree(St, p, name, F, ord, keep)
         IN \E F \in FaultSets(Op) : Commit("cache_free", name, Op(F))

BroadcastFree(p) ==
    /\ cells[p] # NoCell
    /\ \E ord \in LiveOrders :
         LET Op(F) == [S |-> CellBroadcast(St, p, "free", F, ord), err |-> OkErr]
         IN \E F \in FaultSets(Op) : Commit("broadcast_free", p, Op(F))

BroadcastKill(p) ==
    /\ cells[p] # NoCell
    /\ \E ord \in LiveOrders :
         LET Op(F) == [S |-> CellBroadcast(St, p, "kill", F, ord), err |-> OkErr]
         IN \E F \in FaultSets(Op) : Commit("broadcast_kill", p, Op(F))

CacheGet(p, name) ==
    /\ cells[p] # NoCell
    /\ Commit("cache_get", name, CellCacheGet(St, p, name))

CellGraph(p) ==
    /\ cells[p] # NoCell
    /\ \E strict \in BOOLEAN :
         Commit("cell_graph", p, CellCacheCellGraph(St, p, strict))

NextCell ==
    \/ \E p \in TopPaths : New(p)
    \/ \E p \in TopPaths : AllocateCell(p)
    \/ \E p \in TopPaths : FreeCell(p)
    \/ \E p \in TopPaths : KillCell(p)
    \/ \E p \in TopPaths : Drop(p)
    \/ \E p \in TopPaths : \E name \in Subtree(p) \ {p} : CacheAllocate(p, name)
    \/ \E p \in TopPaths : \E name \in Subtree(p) \ {p} : CacheFree(p, name)
    \/ \E p \in TopPaths : BroadcastFree(p)
    \/ \E p \in TopPaths : BroadcastKill(p)
    \/ \E p \in TopPaths : \E name \in Subtree(p) \ {p} : CacheGet(p, name)
    \/ \E p \in TopPaths : CellGraph(p)

SpecCell == Init /\ [][NextCell]_vars

(* The same Cell with a failure injected into cgroup.add_task: the allocate  *)
(* takes its abort path, on which further calls can fail.                   *)

AllocateCellAborted(p) ==
    /\ cells[p] # NoCell
    /\ LET Op(F) == CellAllocate(St, p, F \cup {<<"add_task", p>>})
       IN \E F \in FaultSets(Op) : Commit("allocate", p, Op(F))

NextAbort ==
    \/ NextCell
    \/ \E p \in TopPaths : AllocateCellAborted(p)

SpecAbort == Init /\ [][NextAbort]_vars

(* The same Cell created with any CellSpec, and read through its accessors. *)

ReadName(q) ==
    /\ cells[q] # NoCell
    /\ CommitVal("name", q, [S |-> St, err |-> OkErr], CellNameOf(St, q))

ReadSpec(q) ==
    /\ cells[q] # NoCell
    /\ CommitVal("spec", q, [S |-> St, err |-> OkErr], CellSpecOf(St, q))

\* The names this specification creates Cells for: a and its child a/b.
FieldPaths == {<<"a">>, <<"a", "b">>}

NextFields ==
    \/ \E p \in TopPaths, s \in Specs : NewCell(p, s)
    \/ \E p \in TopPaths : AllocateCell(p)
    \/ \E p \in TopPaths : FreeCell(p)
    \/ \E p \in TopPaths : KillCell(p)
    \/ \E p \in TopPaths : Drop(p)
    \/ \E p \in TopPaths, s \in Specs : \E name \in FieldPaths \ {p} : CacheAllocateCell(p, name, s)
    \/ \E p \in TopPaths : \E name \in FieldPaths \ {p} : CacheFree(p, name)
    \/ \E p \in TopPaths : BroadcastFree(p)
    \/ \E p \in TopPaths : BroadcastKill(p)
    \/ \E p \in TopPaths : \E name \in FieldPaths \ {p} : CacheGet(p, name)
    \/ \E p \in TopPaths : CellGraph(p)
    \/ \E q \in FieldPaths : ReadName(q)
    \/ \E q \in FieldPaths : ReadSpec(q)

SpecFields == Init /\ [][NextFields]_vars

(* Executables, driven through start, kill and pid.                         *)

ExeCommit(op, x, r) ==
    /\ executables' = [executables EXCEPT ![x] = r.e]
    /\ exe_res' = [op |-> op, name |-> x, was |-> executables[x].state, ret |-> r.ret]
    /\ UNCHANGED <<cellVars, svcVars, valVars, obsVars>>

Start(x) ==
    /\ executables[x].spawns < MaxSpawns
    /\ \E fail \in BOOLEAN : ExeCommit("start", x, ExecutableStart(executables[x], fail))

Kill(x) ==
    /\ executables[x].state = ExeStarted => executables[x].signals < MaxSignals
    /\ \E fault \in {"none", "kill", "wait"}, status \in ExitStatuses :
         ExeCommit("kill", x, ExecutableKill(executables[x], fault, status))

Pid(x) ==
    /\ x \in ExeNames
    /\ ExeCommit("pid", x, ExecutablePid(executables[x]))

\* The child ends by itself.
ChildExits(x) ==
    /\ executables[x].alive
    /\ executables' = [executables EXCEPT ![x].alive = FALSE]
    /\ exe_res' = [op |-> "exit", name |-> x, was |-> executables[x].state, ret |-> Ret("Ok", "unit")]
    /\ UNCHANGED <<cellVars, svcVars, valVars, obsVars>>

NextExe ==
    \/ \E x \in ExeNames : Start(x)
    \/ \E x \in ExeNames : Kill(x)
    \/ \E x \in ExeNames : Pid(x)
    \/ \E x \in ExeNames : ChildExits(x)

SpecExe == Init /\ [][NextExe]_vars

(* Allocation: validate on any input, into_inner on what was validated.     *)

Validate(input, field_name, parent_name) ==
    /\ allocation' = [input |-> input, field |-> field_name, parent |-> parent_name,
                      ret |-> AllocationValidate(input, field_name, parent_name)]
    /\ inner' = NoInput
    /\ UNCHANGED <<cellVars, exeVars, svcVars, obsVars>>

IntoInner ==
    /\ allocation.ret.kind = "Ok"
    /\ inner = NoInput
    /\ inner' = Some(AllocationIntoInner(allocation.ret.val))
    /\ UNCHANGED <<allocation, cellVars, exeVars, svcVars, obsVars>>

NextAllocation ==
    \/ \E input \in AllocInputs, f \in FieldNames, p \in ParentNames : Validate(input, f, p)
    \/ IntoInner

SpecAllocation == Init /\ [][NextAllocation]_vars

(* The CgroupCache and the root directory it reads, which other processes   *)
(* change: entries are created, removed and renamed, and the inode number   *)
(* of a removed entry can be given to a new one.                            *)

DirNames == {root_dir[i] : i \in Inos} \ {NoFile}

DirCommit(op, ino, d) ==
    /\ root_dir' = d
    /\ cache_res' = [op |-> op, ino |-> ino, ret |-> None, hit |-> FALSE, bad |-> {}]
    /\ UNCHANGED <<cache, cellVars, exeVars, svcVars, valVars>>

CreateFile(ino, name) ==
    /\ root_dir[ino] = NoFile
    /\ name \notin DirNames
    /\ DirCommit("create", ino, [root_dir EXCEPT ![ino] = name])

RemoveFile(ino) ==
    /\ root_dir[ino] # NoFile
    /\ DirCommit("remove", ino, [root_dir EXCEPT ![ino] = NoFile])

RenameFile(ino, name) ==
    /\ root_dir[ino] # NoFile
    /\ name \notin DirNames
    /\ DirCommit("rename", ino, [root_dir EXCEPT ![ino] = name])

Get(ino) ==
    \E bad \in {b \in SUBSET {i \in Inos : root_dir[i] # NoFile} : Cardinality(b) <= MaxReadErrors} :
      LET r == CgroupCacheGet(cache, root_dir, ino, bad)
      IN /\ cache' = r.cache
         /\ cache_res' = [op |-> "get", ino |-> ino, ret |-> r.ret, hit |-> r.hit,
                          bad |-> IF r.hit THEN {} ELSE bad]
         /\ UNCHANGED <<root_dir, cellVars, exeVars, svcVars, valVars>>

NextObserve ==
    \/ \E ino \in Inos, name \in FileNames : CreateFile(ino, name)
    \/ \E ino \in Inos : RemoveFile(ino)
    \/ \E ino \in Inos, name \in FileNames : RenameFile(ino, name)
    \/ \E ino \in Inos : Get(ino)

SpecObserve == Init /\ [][NextObserve]_vars

(* The root map of the daemon, driven by name as the Cell Service does.     *)

Allocate(name) ==
    /\ name \in Paths
    /\ LET Op(F) == CellsAllocate(St, <<>>, name, DefaultSpec, F)
       IN \E F \in FaultSets(Op) : CommitVal("allocate", name, Op(F), DefaultSpec)

Free(name) ==
    /\ name \in Paths
    /\ \E ord \in LiveOrders, keep \in BOOLEAN :
         LET Op(F) == CellsFree(St, <<>>, name, F, ord, keep)
         IN \E F \in FaultSets(Op) : Commit("free", name, Op(F))

RootBroadcastFree ==
    /\ \E p \in TopPaths : cells[p] # NoCell
    /\ \E ord \in LiveOrders :
         LET Op(F) == [S |-> Broadcast(St, <<>>, "free", F, ord, 1), err |-> OkErr]
         IN \E F \in FaultSets(Op) : Commit("broadcast_free", <<>>, Op(F))

RootBroadcastKill ==
    /\ \E p \in TopPaths : cells[p] # NoCell
    /\ \E ord \in LiveOrders :
         LET Op(F) == [S |-> Broadcast(St, <<>>, "kill", F, ord, 1), err |-> OkErr]
         IN \E F \in FaultSets(Op) : Commit("broadcast_kill", <<>>, Op(F))

RootDrop ==
    /\ \E p \in TopPaths : cells[p] # NoCell
    /\ \E ord \in LiveOrders :
         LET Op(F) == [S |-> CellsDrop(St, F, ord), err |-> OkErr]
         IN \E F \in FaultSets(Op) : Commit("drop", <<>>, Op(F))

Next ==
    \/ \E name \in Paths : Allocate(name)
    \/ \E name \in Paths : Free(name)
    \/ RootBroadcastFree
    \/ RootBroadcastKill
    \/ RootDrop

Spec == Init /\ [][Next]_vars

(* The daemon: requests of the clients, the shutdown signal, the two tasks. *)

\* The tree after an operation that returned r; the result goes to the client.
WriteTree(r) ==
    /\ cells' = r.S.cells
    /\ cell_name' = r.S.cell_name
    /\ spec' = r.S.spec
    /\ dir' = r.S.dir
    /\ proc' = r.S.proc
    /\ attached' = r.S.attached
    /\ UNCHANGED <<dropped, log, handled, res, exeVars, valVars, obsVars>>

TreeUnchanged == UNCHANGED <<cellVars, exeVars, valVars, obsVars>>

\* A request arrives while the server accepts requests.
RpcCall(c) ==
    /\ server = "serving"
    /\ rpc[c].pc = "idle"
    /\ \E op \in ServiceOps, name \in ServicePaths :
         rpc' = [rpc EXCEPT ![c] = Request(op, name)]
    /\ UNCHANGED <<lock, server, graceful, returned>>
    /\ TreeUnchanged

\* A handler that does not wait for the lock to be free.
RpcLock_NotExclusive(c) ==
    /\ rpc[c].pc = "waiting"
    /\ lock' = c
    /\ rpc' = [rpc EXCEPT ![c].pc = "locked"]
    /\ UNCHANGED <<server, graceful, returned>>
    /\ TreeUnchanged

\* The handler takes the lock on the root map.
RpcLock(c) ==
    /\ rpc[c].pc = "waiting"
    /\ lock = NoHolder
    /\ lock' = c
    /\ rpc' = [rpc EXCEPT ![c].pc = "locked"]
    /\ UNCHANGED <<server, graceful, returned>>
    /\ TreeUnchanged

\* The handler runs the operation on the tree it finds.
RpcBegin(c) ==
    /\ rpc[c].pc = "locked"
    /\ \E flag \in BOOLEAN :
         LET Op(F) == Run(St, rpc[c], F, flag)
         IN \E F \in FaultSets(Op) :
              rpc' = [rpc EXCEPT ![c] = [pc |-> "computed", op |-> rpc[c].op, name |-> rpc[c].name,
                                         F |-> F, flag |-> flag, r |-> Op(F)]]
    /\ UNCHANGED <<lock, server, graceful, returned>>
    /\ TreeUnchanged

\* The operation is done: the tree is as the operation left it, the lock is
\* released and the result returned to the client.
RpcEnd(c) ==
    /\ rpc[c].pc = "computed"
    /\ WriteTree(rpc[c].r)
    /\ lock' = IF lock = c THEN NoHolder ELSE lock
    /\ rpc' = [rpc EXCEPT ![c] = Idle]
    /\ UNCHANGED <<server, graceful, returned>>

\* SIGTERM or SIGINT: GracefulShutdown::wait sends the shutdown signal.
Signal ==
    /\ graceful = "waiting"
    /\ graceful' = "signalled"
    /\ UNCHANGED <<lock, rpc, server, returned>>
    /\ TreeUnchanged

\* serve_with_incoming_shutdown: the signal changed, no request is accepted.
ServerStop ==
    /\ server = "serving"
    /\ graceful # "waiting"
    /\ server' = "draining"
    /\ UNCHANGED <<lock, rpc, graceful, returned>>
    /\ TreeUnchanged

\* The server task ends when the requests in flight are done.
ServerExit ==
    /\ server = "draining"
    /\ \A c \in Clients : rpc[c].pc = "idle"
    /\ server' = "exited"
    /\ UNCHANGED <<lock, rpc, graceful, returned>>
    /\ TreeUnchanged

\* The graceful shutdown task takes the lock on the root map,
GracefulLock ==
    /\ graceful = "signalled"
    /\ lock = NoHolder
    /\ lock' = "graceful"
    /\ graceful' = "locked"
    /\ UNCHANGED <<rpc, server, returned>>
    /\ TreeUnchanged

\* runs broadcast_free on it,
GracefulBroadcast ==
    /\ graceful = "locked"
    /\ \E ord \in LiveOrders :
         LET Op(F) == [S |-> Broadcast(St, <<>>, "free", F, ord, 1), err |-> OkErr]
         IN \E F \in FaultSets(Op) : WriteTree(Op(F))
    /\ graceful' = "broadcast"
    /\ UNCHANGED <<lock, rpc, server, returned>>

\* and releases it.
GracefulUnlock ==
    /\ graceful = "broadcast"
    /\ lock' = NoHolder
    /\ graceful' = "done"
    /\ UNCHANGED <<rpc, server, returned>>
    /\ TreeUnchanged

\* try_join!(server_handle, graceful_shutdown_handle) (lib.rs 293-294).
Return ==
    /\ ~returned
    /\ server = "exited"
    /\ graceful = "done"
    /\ returned' = TRUE
    /\ UNCHANGED <<lock, rpc, server, graceful>>
    /\ TreeUnchanged

NextService ==
    \/ \E c \in Clients : RpcCall(c)
    \/ \E c \in Clients : RpcLock(c)
    \/ \E c \in Clients : RpcBegin(c)
    \/ \E c \in Clients : RpcEnd(c)
    \/ Signal
    \/ ServerStop
    \/ ServerExit
    \/ GracefulLock
    \/ GracefulBroadcast
    \/ GracefulUnlock
    \/ Return

SpecService == Init /\ [][NextService]_vars

\* The runtime runs every task that can run and the lock is granted in
\* turn.  The step a task makes right after taking the lock (RpcBegin,
\* GracefulBroadcast) is always possible, so its fairness is that the task
\* does not stay at that point.
FairService ==
    /\ \A c \in Clients : SF_vars(RpcLock(c)) /\ []<>(rpc[c].pc # "locked") /\ WF_vars(RpcEnd(c))
    /\ WF_vars(ServerStop) /\ WF_vars(ServerExit)
    /\ SF_vars(GracefulLock) /\ []<>(graceful # "locked") /\ WF_vars(GracefulUnlock)
    /\ WF_vars(Return)

SpecServiceLive == Init /\ [][NextService]_vars /\ FairService

(***************************************************************************)
(* Properties.                                                             *)
(***************************************************************************)

\* The last operation made the kernel call kind on p with result ok.
LogHas(kind, p, ok) == \E i \in 1..Len(log) : log[i] = <<kind, p, ok>>

\* C1: Freed is absorbing.  A Cell that is Freed stays Freed under every
\* operation until the object is destroyed, it is destroyed as Freed, and
\* Cell::allocate on a Freed cell returns Ok and leaves it Freed.
C1_FreedIsAbsorbing ==
    [][\A p \in Paths :
         cells[p] = Freed =>
           /\ cells'[p] \in {Freed, NoCell}
           /\ cells'[p] = NoCell => dropped'[p] = Freed
           /\ (res'.op = "allocate" /\ res'.target = p) =>
                (res'.err = OkErr /\ cells'[p] = Freed)]_vars

C1_Witness ==
    /\ res.op = "allocate"
    /\ res.was = Freed
    /\ res.err = OkErr
    /\ cells[res.target] = Freed

\* C2: every Cell::free or Cell::kill that returns, with Ok or with an error,
\* leaves the Cell Freed.
C2_FreeAlwaysEndsFreed ==
    res.op \in {"free", "kill"} => cells[res.target] = Freed

\* C3: the insert into the map is the commit point of an allocation.  After
\* an allocate that failed with FailedToAllocateCell or AbortedAllocateCell
\* the error names the cell and the map has no entry for it; an entry the
\* allocate added is Allocated, returned Ok, and its add_task succeeded.
C3_AllocateCommitPoint ==
    res.op = "allocate" =>
      /\ res.err.kind \in {"FailedToAllocateCell", "AbortedAllocateCell"} =>
           (res.err.name = res.target /\ cells[res.target] = NoCell)
      /\ (res.was = NoCell /\ cells[res.target] # NoCell) =>
           /\ res.err = OkErr
           /\ cells[res.target] = Allocated
           /\ LogHas("add_task", res.target, TRUE)

C3_Witness ==
    /\ res.op = "allocate"
    /\ res.target = <<"a", "b">>
    /\ res.err.kind = "AbortedAllocateCell"
    /\ cells[res.target] = NoCell
    /\ cells[<<"a">>] = Allocated

C5_AllocateIsNoOp ==
    [][(res'.op = "allocate" /\ cells[res'.target] \in {Allocated, Freed}) =>
         /\ res'.err = OkErr
         /\ log' = <<>>
         /\ UNCHANGED <<cells, dir, proc, attached>>]_vars

C5_Witness ==
    /\ res.op = "allocate"
    /\ res.was = Allocated
    /\ res.err = OkErr
    /\ log = <<>>
    /\ cells[res.target] = Allocated
    /\ cells[<<"a", "b">>] = Allocated

\* C6: in every reachable state an Allocated Cell has its cgroup directory
\* and a live nested daemon whose pid is in that cgroup.
C6_AllocatedOwnsResources ==
    \A p \in Paths : cells[p] = Allocated => (dir[p] /\ proc[p] /\ attached[p])

\* C7 as stated: an Unallocated or Freed Cell has no cgroup directory and no
\* nested daemon process, also after an aborted allocate whose cleanup failed.
C7_NoKernelResources ==
    \A p \in Paths : cells[p] \in {Unallocated, Freed} => (~dir[p] /\ ~proc[p])

\* The last operation, seen from the step that made it, had a failed
\* shutdown, kill or delete on p.
CleanupFailed(p) ==
    \E i \in 1..Len(log') :
      log'[i][1] \in {"shutdown", "kill", "delete"} /\ log'[i][2] = p /\ ~log'[i][3]

\* C7 amended: a Cell that is Unallocated or Freed has no nested daemon
\* process and no pid in a cgroup; a cgroup directory of a name without an
\* Allocated Cell is the leftover of a failed cleanup: an operation leaves
\* one only if it was a leftover before or a shutdown, kill or delete on that
\* name failed in the operation.
C7_NoResourcesButLeftovers ==
    [][\A p \in Paths :
         /\ cells'[p] \in {Unallocated, Freed} => (~proc'[p] /\ ~attached'[p])
         /\ (cells'[p] # Allocated /\ dir'[p]) =>
              ((cells[p] # Allocated /\ dir[p]) \/ CleanupFailed(p))]_vars

C7_Witness ==
    /\ res.op = "allocate"
    /\ res.err.kind = "AbortedAllocateCell"
    /\ cells[res.target] = Unallocated
    /\ dir[res.target]
    /\ ~proc[res.target]
    /\ LogHas("delete", res.target, FALSE)

\* C8: a Free by name that returns Ok leaves the named Cell and every
\* descendant that existed Freed (the state they are destroyed in), with no
\* cgroup directory and no daemon process; a daemon that was alive was shut
\* down gracefully.
C8_FreeFreesSubtree ==
    [][(res'.op = "free" /\ res'.err = OkErr) =>
         \A q \in Subtree(res'.target) :
           cells[q] # NoCell =>
             /\ cells'[q] = NoCell
             /\ dropped'[q] = Freed
             /\ ~dir'[q]
             /\ ~proc'[q]
             /\ proc[q] => \E i \in 1..Len(log') : log'[i] = <<"shutdown", q, TRUE>>]_vars

C8_Witness ==
    /\ res.op = "free"
    /\ res.target = <<"a">>
    /\ res.err = OkErr
    /\ dropped[<<"a">>] = Freed
    /\ dropped[<<"a", "b">>] = Freed
    /\ dropped[<<"a", "b", "c">>] = Freed
    /\ LogHas("shutdown", <<"a", "b", "c">>, TRUE)
    /\ LogHas("delete", <<"a", "b", "c">>, TRUE)

\* The Cell named q is Freed, or was destroyed as Freed by the last operation.
IsFreed(q) == cells[q] = Freed \/ (cells[q] = NoCell /\ dropped[q] = Freed)

\* C9: with a, a/b and a/c allocated (and no a/b/c), a Free(a) during which
\* the deletion of a/b's cgroup fails returns FailedToFreeCell naming a/b,
\* and leaves a, a/b and a/c Freed and a/c's cgroup deleted.
C9_BroadcastUnderPartialFailure ==
    ( /\ res.op = "free"
      /\ res.target = <<"a">>
      /\ res.was = Allocated
      /\ LogHas("delete", <<"a", "b">>, FALSE)
      /\ LogHas("shutdown", <<"a", "c">>, TRUE)
      /\ \A i \in 1..Len(log) : log[i][2] # <<"a", "b", "c">> ) =>
        /\ res.err.kind = "FailedToFreeCell"
        /\ res.err.name = <<"a", "b">>
        /\ IsFreed(<<"a">>) /\ IsFreed(<<"a", "b">>) /\ IsFreed(<<"a", "c">>)
        /\ ~dir[<<"a", "c">>]

\* C10: dropping a Cell destroys it without returning a result.  For an
\* Allocated Cell the calls made are those of Cell::kill: only kill and
\* delete, a kill of the daemon of every Allocated Cell of the subtree and,
\* where the kill succeeded, a delete of its cgroup after it; afterwards no
\* Cell and no daemon of the subtree is left, and no cgroup directory if no
\* call failed.  For an Unallocated or Freed Cell no call is made.
C10_DropIsForceful ==
    [][res'.op = "drop" =>
         LET t == res'.target
             n == Len(log')
         IN /\ cells'[t] = NoCell
            /\ res'.err = OkErr
            /\ cells[t] \in {Unallocated, Freed} =>
                 (log' = <<>> /\ UNCHANGED <<dir, proc, attached>>)
            /\ cells[t] = Allocated =>
                 /\ \A i \in 1..n : log'[i][1] \in {"kill", "delete"}
                 /\ \A q \in Subtree(t) :
                      cells[q] = Allocated =>
                        \E i \in 1..n :
                          /\ log'[i][1] = "kill" /\ log'[i][2] = q
                          /\ log'[i][3] =>
                               \E j \in (i + 1)..n : log'[j][1] = "delete" /\ log'[j][2] = q
                 /\ \A q \in Subtree(t) : cells'[q] = NoCell /\ ~proc'[q] /\ ~attached'[q]
                 /\ (\A i \in 1..n : log'[i][3]) => \A q \in Subtree(t) : ~dir'[q]]_vars

C10_Witness ==
    /\ res.op = "drop"
    /\ res.target = <<"a">>
    /\ res.was = Allocated
    /\ dropped[<<"a", "b">>] = Freed
    /\ dropped[<<"a", "c">>] = Freed
    /\ LogHas("kill", <<"a", "b">>, TRUE)
    /\ LogHas("kill", <<"a">>, TRUE)
    /\ LogHas("delete", <<"a">>, TRUE)
    /\ \A q \in Paths : ~dir[q] /\ ~proc[q]

\* C11: an allocate of a name that is already in the map of its level fails
\* with CellExists naming it and changes nothing: the entry and every other
\* Cell keep their state, no daemon is spawned or stopped (the daemon of the
\* entry is the process it was), no cgroup is created or deleted; and
\* CellExists is returned in no other case.
C11_CellExistsChangesNothing ==
    [][res'.op = "allocate" =>
         /\ cells[res'.target] # NoCell =>
              /\ res'.err = Err("CellExists", res'.target, "none")
              /\ log' = <<>>
              /\ UNCHANGED <<cells, dir, proc, attached>>
         /\ res'.err.kind = "CellExists" => cells[res'.target] # NoCell]_vars

C11_Witness ==
    /\ res.op = "allocate"
    /\ res.target = <<"a", "b">>
    /\ res.err.kind = "CellExists"
    /\ res.was = Allocated
    /\ cells[<<"a", "b">>] = Allocated
    /\ proc[<<"a", "b">>]
    /\ cells[<<"a", "b", "c">>] = Allocated

\* C12: round trip.  From a state without an entry for n, an Allocate(n)
\* that succeeds creates the entry, the directory and the daemon of n and
\* touches nothing else; every Free(n) that then succeeds leaves no entry,
\* no cgroup directory and no daemon for n, and every other entry, directory
\* and daemon as they were before the Allocate.
C12_AllocateFreeRoundTrip ==
    [][(res'.op = "allocate" /\ res'.err = OkErr /\ cells[res'.target] = NoCell) =>
         LET n == res'.target
         IN /\ cells' = [cells EXCEPT ![n] = Allocated]
            /\ dir' = [dir EXCEPT ![n] = TRUE]
            /\ proc' = [proc EXCEPT ![n] = TRUE]
            /\ attached' = [attached EXCEPT ![n] = TRUE]
            /\ \A ord \in Orders, keep \in BOOLEAN :
                 LET Op(F) == CellsFree(St', <<>>, n, F, ord, keep)
                 IN \A F \in FaultSets(Op) :
                      Op(F).err = OkErr =>
                        /\ Op(F).S.cells = cells
                        /\ Op(F).S.dir = [dir EXCEPT ![n] = FALSE]
                        /\ Op(F).S.proc = [proc EXCEPT ![n] = FALSE]
                        /\ Op(F).S.attached = [attached EXCEPT ![n] = FALSE]
                        /\ Op(F).S.dropped[n] = Freed]_vars

\* A Free(a/b) has succeeded on the Allocated a/b, beside its parent a.
C12_Witness ==
    /\ res.op = "free"
    /\ res.target = <<"a", "b">>
    /\ res.was = Allocated
    /\ res.err = OkErr
    /\ cells[<<"a", "b">>] = NoCell
    /\ dropped[<<"a", "b">>] = Freed
    /\ ~dir[<<"a", "b">>] /\ ~proc[<<"a", "b">>]
    /\ cells[<<"a">>] = Allocated /\ dir[<<"a">>] /\ proc[<<"a">>] /\ attached[<<"a">>]
    /\ LogHas("shutdown", <<"a", "b">>, TRUE)
    /\ LogHas("delete", <<"a", "b">>, TRUE)

\* C13: a delegated allocate, free, get or cell_graph on a Cell that is
\* Unallocated or Freed fails with CellNotAllocated naming that Cell, makes
\* no kernel call and changes no Cell, daemon or cgroup.
C13_CellNotAllocated ==
    [][\A p \in TopPaths :
         ( /\ res'.op \in {"cache_allocate", "cache_free", "cache_get", "cell_graph"}
           /\ EntryOf(<<>>, res'.target) = p
           /\ cells[p] \in {Unallocated, Freed} ) =>
             /\ res'.err = Err("CellNotAllocated", p, "none")
             /\ log' = <<>>
             /\ UNCHANGED <<cells, dir, proc, attached>>]_vars

\* Allocating a/b through the Freed a has failed with CellNotAllocated.
C13_Witness ==
    /\ res.op = "cache_allocate"
    /\ res.target = <<"a", "b">>
    /\ res.err = Err("CellNotAllocated", <<"a">>, "none")
    /\ cells[<<"a">>] = Freed
    /\ cells[<<"a", "b">>] = NoCell

\* C14: Cell::free or Cell::kill on an Unallocated or Freed Cell returns Ok,
\* leaves it Freed and makes no daemon or cgroup call; no later operation
\* makes that Cell Allocated: an allocate on it returns without a call.
C14_FreeOfUnallocated ==
    [][/\ \A p \in Paths :
            (res'.op \in {"free", "kill"} /\ res'.target = p /\ cells[p] \in {Unallocated, Freed}) =>
              /\ res'.err = OkErr
              /\ cells'[p] = Freed
              /\ log' = <<>>
              /\ UNCHANGED <<dir, proc, attached>>
       /\ \A p \in Paths :
            (res.op \in {"free", "kill"} /\ res.target = p /\ res.was = Unallocated) =>
              /\ cells[p] = Freed
              /\ cells'[p] # Allocated
              /\ (res'.op = "allocate" /\ res'.target = p) => log' = <<>>
       /\ \A p \in Paths : cells[p] = Freed => cells'[p] # Allocated]_vars

\* A Cell that was freed while Unallocated has then been asked to allocate.
C14_Witness ==
    /\ res.op = "allocate"
    /\ res.was = Freed
    /\ res.err = OkErr
    /\ cells[res.target] = Freed
    /\ log = <<>>
    /\ \A q \in Paths : ~dir[q] /\ ~proc[q]
    /\ \A q \in Paths \ {res.target} : cells[q] = NoCell

\* C15: no operation changes the name or the spec of a Cell.  A Cell is
\* created with the name and the spec it was given, every operation on a Cell
\* that exists before and after it leaves both fields as they were, and
\* name() and spec() return the fields.
C15_NameAndSpecNeverChange ==
    [][\A q \in Paths :
         /\ (cells[q] = NoCell /\ cells'[q] # NoCell) =>
              /\ res'.target = q
              /\ res'.val \in Specs
              /\ cell_name'[q] = q
              /\ spec'[q] = res'.val
         /\ (cells[q] # NoCell /\ cells'[q] # NoCell) =>
              /\ cell_name'[q] = cell_name[q]
              /\ spec'[q] = spec[q]
              /\ cell_name[q] = q
              /\ spec[q] \in Specs
         /\ (res'.op = "name" /\ res'.target = q) => res'.val = cell_name[q]
         /\ (res'.op = "spec" /\ res'.target = q) => res'.val = spec[q]]_vars

\* spec() of a/b, created with another spec than a and freed by a broadcast,
\* has returned the spec a/b was created with.
C15_Witness ==
    /\ res.op = "spec"
    /\ res.target = <<"a", "b">>
    /\ res.val = "spec2"
    /\ spec[<<"a">>] = "spec1"
    /\ cells[<<"a">>] = Allocated
    /\ cells[<<"a", "b">>] = Freed

\* C18: the state of an Executable only moves forward.  It changes only from
\* Init to Started, by a start() that returned Ok, and from Started to
\* Stopped, by a kill() that returned Ok; pid() and the other outcomes of
\* start() and kill() leave it as it is.
C18_ExecutableMovesForward ==
    [][\A x \in ExeNames :
         executables'[x].state # executables[x].state =>
           /\ exe_res'.name = x
           /\ exe_res'.ret.kind = "Ok"
           /\ \/ /\ executables[x].state = ExeInit
                 /\ executables'[x].state = ExeStarted
                 /\ exe_res'.op = "start"
              \/ /\ executables[x].state = ExeStarted
                 /\ executables'[x].state = ExeStopped
                 /\ exe_res'.op = "kill"]_vars

\* A start() on a Stopped executable has returned.
C18_Witness ==
    /\ exe_res.op = "start"
    /\ exe_res.was = ExeStopped
    /\ executables[exe_res.name].state = ExeStopped
    /\ \E y \in ExeNames : executables[y].state = ExeStarted

\* C19: start() on a Started or Stopped executable returns Ok and changes
\* nothing: no child and no log task is spawned and the state stays; over
\* any sequence of operations an Executable spawns at most one child and one
\* pair of log tasks.
C19_StartOnlyOnce ==
    [][\A x \in ExeNames :
         /\ (exe_res'.op = "start" /\ exe_res'.name = x /\ executables[x].state # ExeInit) =>
              /\ exe_res'.ret = Ret("Ok", "unit")
              /\ executables'[x] = executables[x]
         /\ executables'[x].spawns <= 1
         /\ executables'[x].tasks <= 2
         /\ executables'[x].spawns = 1 <=> executables'[x].state # ExeInit]_vars

\* A start() on a Started executable has returned Ok.
C19_Witness ==
    /\ exe_res.op = "start"
    /\ exe_res.was = ExeStarted
    /\ exe_res.ret = Ret("Ok", "unit")
    /\ executables[exe_res.name].state = ExeStarted
    /\ executables[exe_res.name].spawns = 1

\* C20: kill() on an Init executable returns None and leaves it Init.  On a
\* Started executable kill() returns an error of child.kill() or child.wait()
\* and leaves it Started, or it signals the child once, leaves it stopped and
\* returns Some(status), the status the executable is Stopped with.  A kill()
\* on a Stopped executable returns the stored status, which never changes,
\* and sends no signal.
C20_KillReturnsStatus ==
    [][\A x \in ExeNames :
         /\ (exe_res'.op = "kill" /\ exe_res'.name = x) =>
              /\ executables[x].state = ExeInit =>
                   /\ exe_res'.ret = Ret("Ok", "None")
                   /\ executables'[x] = executables[x]
              /\ executables[x].state = ExeStarted =>
                   \/ /\ exe_res'.ret.kind = "Err"
                      /\ executables'[x].state = ExeStarted
                   \/ /\ exe_res'.ret.kind = "Ok"
                      /\ exe_res'.ret.val \in ExitStatuses
                      /\ executables'[x].state = ExeStopped
                      /\ executables'[x].status = exe_res'.ret.val
                      /\ ~executables'[x].alive
                      /\ executables'[x].signals = executables[x].signals + 1
              /\ executables[x].state = ExeStopped =>
                   /\ exe_res'.ret = Ret("Ok", executables[x].status)
                   /\ executables'[x] = executables[x]
         /\ executables[x].state = ExeStopped =>
              /\ executables'[x].status = executables[x].status
              /\ executables'[x].signals = executables[x].signals]_vars

\* A kill() on a Stopped executable has returned its status.
C20_Witness ==
    /\ exe_res.op = "kill"
    /\ exe_res.was = ExeStopped
    /\ exe_res.ret = Ret("Ok", "exit0")
    /\ executables[exe_res.name].status = "exit0"
    /\ executables[exe_res.name].signals = 1

\* The clients and the shutdown task that are inside a locked section.
InLockedSection ==
    {c \in Clients : rpc[c].pc \in {"locked", "computed"}}
      \cup (IF graceful \in {"locked", "broadcast"} THEN {"graceful"} ELSE {})

\* C16: the operations of the Cell Service are serialized by the lock on
\* the root map.  At most one of the handlers and the shutdown task is inside
\* a locked section, and it holds the lock; an operation ends on the tree it
\* started on, so that its effect is that of the whole operation applied at
\* once; the tree changes only by the operation of the lock holder; and
\* from the moment the shutdown task holds the lock until it releases it no
\* handler completes an operation.
C16_OperationsAreSerialized ==
    [][/\ Cardinality(InLockedSection) <= 1
       /\ \A h \in InLockedSection : lock = h
       /\ \A c \in Clients :
            (rpc[c].pc = "computed" /\ rpc'[c].pc = "idle") =>
              /\ rpc[c].r = Run(St, rpc[c], rpc[c].F, rpc[c].flag)
              /\ Tree(St)' = Tree(rpc[c].r.S)
       /\ Tree(St)' # Tree(St) =>
            \/ \E c \in Clients : lock = c /\ rpc[c].pc = "computed" /\ rpc'[c].pc = "idle"
            \/ lock = "graceful" /\ graceful = "locked" /\ graceful' = "broadcast"
       /\ graceful \in {"locked", "broadcast"} =>
            \A c \in Clients : rpc'[c].pc = rpc[c].pc \/ rpc'[c].pc = "waiting"]_vars

\* An Allocate holds the lock and has run while a Free of the other client
\* and the signalled shutdown task wait for it.
C16_Witness ==
    /\ lock = "c1"
    /\ rpc["c1"].pc = "computed"
    /\ rpc["c1"].op = "allocate"
    /\ rpc["c1"].name = <<"a", "b">>
    /\ rpc["c1"].r.err = OkErr
    /\ rpc["c2"].pc = "waiting"
    /\ rpc["c2"].op = "free"
    /\ graceful = "signalled"

\* Every Cell of the tree is Freed.
AllFreed == \A p \in Paths : cells[p] \in {NoCell, Freed}

\* C17: graceful shutdown.  After the signal the server stops and run()
\* returns, and it returns only when the server task and the shutdown task
\* have ended; the broadcast_free of the shutdown task leaves every Cell of
\* the tree Freed.
C17_GracefulShutdown ==
    /\ (graceful # "waiting") ~> returned
    /\ [](returned => (server = "exited" /\ graceful = "done"))
    /\ [][(graceful = "locked" /\ graceful' = "broadcast") => AllFreed']_vars

C22_ValidateAcceptsNonNegative ==
    /\ allocation.ret.kind = "Ok" <=> (allocation.input # NoInput /\ allocation.input[1] >= 0)
    /\ allocation.ret.kind = "Ok" =>
         /\ Some(AllocationIntoInner(allocation.ret.val)) = allocation.input
         /\ inner # NoInput => (inner = allocation.input /\ inner[1] >= 0)
    /\ allocation.ret.kind = "Err" =>
         /\ allocation.ret.err.field = allocation.field
         /\ allocation.ret.err.parent = allocation.parent
         /\ inner = NoInput
    /\ allocation.ret.kind \in {"Ok", "Err", "none"}
    /\ allocation.ret.kind = "none" => inner = NoInput

\* validate(Some(0)) has returned an Allocation and into_inner() returned 0.
C22_Witness ==
    /\ allocation.input = Some(0)
    /\ allocation.ret.kind = "Ok"
    /\ inner = Some(0)

\* C23 as stated: get(ino) returns the file name of the entry of the root
\* directory that has the inode number ino whenever there is such an entry.
C23_GetReturnsEntry ==
    (cache_res.op = "get" /\ root_dir[cache_res.ino] # NoFile) =>
      cache_res.ret = root_dir[cache_res.ino]

\* C23 amended: when the cache holds a name for ino, get(ino) returns that
\* name and does not read the directory, whatever the directory holds now;
\* otherwise it reads the directory into the cache and returns the name of
\* the entry with ino if there is one and it could be read, which covers the
\* entries created after the cache was built or after earlier lookups.
C23_GetReturnsCachedOrEntry ==
    [][cache_res'.op = "get" =>
         LET i == cache_res'.ino
         IN /\ cache[i] # NoFile =>
                 /\ cache_res'.hit
                 /\ cache_res'.ret = cache[i]
                 /\ cache' = cache
            /\ cache[i] = NoFile =>
                 /\ ~cache_res'.hit
                 /\ cache' = CgroupCacheRefresh(cache, root_dir, cache_res'.bad)
                 /\ (root_dir[i] # NoFile /\ i \notin cache_res'.bad) =>
                      cache_res'.ret = root_dir[i]
            /\ root_dir' = root_dir]_vars

\* get has read the directory and returned the name of an entry, after an
\* earlier lookup whose entry has been removed since.
C23_Witness ==
    /\ cache_res.op = "get"
    /\ ~cache_res.hit
    /\ cache_res.ret # None
    /\ cache_res.ret = root_dir[cache_res.ino]
    /\ \E j \in Inos \ {cache_res.ino} : cache[j] # NoFile /\ root_dir[j] = NoFile

\* C24 as stated: get(ino) returns None whenever no entry of the root
\* directory has the inode number ino.
C24_GetReturnsNoneWhenAbsent ==
    (cache_res.op = "get" /\ root_dir[cache_res.ino] = NoFile) => cache_res.ret = None

\* C24 amended: get(ino) returns None when no entry has ino and the cache
\* holds no name for ino; it returns None only if the cache holds no name
\* and the entry is absent or could not be read.  The cache never drops a
\* name: for an ino whose entry was removed after it was cached, get(ino)
\* returns the cached name.
C24_GetReturnsNoneWhenNeverSeen ==
    [][/\ cache_res'.op = "get" =>
            LET i == cache_res'.ino
            IN /\ (root_dir[i] = NoFile /\ cache[i] = NoFile) => cache_res'.ret = None
               /\ cache_res'.ret = None =>
                    (cache[i] = NoFile /\ (root_dir[i] = NoFile \/ i \in cache_res'.bad))
               /\ (root_dir[i] = NoFile /\ cache[i] # NoFile) => cache_res'.ret = cache[i]
       /\ \A j \in Inos : cache[j] # NoFile => cache'[j] # NoFile]_vars

\* get has returned None for an ino without an entry, after an earlier lookup
\* whose entry has been removed since.
C24_Witness ==
    /\ cache_res.op = "get"
    /\ cache_res.ret = None
    /\ root_dir[cache_res.ino] = NoFile
    /\ cache_res.bad = {}
    /\ \E j \in Inos \ {cache_res.ino} : cache[j] # NoFile /\ root_dir[j] = NoFile

\* C25 as stated: in every operation, a delete of a cell's cgroup comes
\* after a shutdown or kill of that cell's nested daemon that succeeded.
C25_DeleteAfterDaemonExited ==
    \A i \in 1..Len(log) :
      log[i][1] = "delete" =>
        \E j \in 1..(i - 1) :
          log[j][1] \in {"shutdown", "kill"} /\ log[j][2] = log[i][2] /\ log[j][3]

\* C25 amended: a delete of a cell's cgroup comes right after the shutdown
\* or kill of that cell's nested daemon.  In free, kill, drop and the
\* broadcasts that call has succeeded; on the abort path of allocate, after
\* a failed add_task, the delete is made whatever the kill returned.
C25_DeleteFollowsDaemonStop ==
    \A i \in 1..Len(log) :
      log[i][1] = "delete" =>
        /\ i >= 2
        /\ log[i - 1][1] \in {"shutdown", "kill"}
        /\ log[i - 1][2] = log[i][2]
        /\ \/ log[i - 1][3]
           \/ /\ i >= 3
              /\ log[i - 1][1] = "kill"
              /\ log[i - 2] = <<"add_task", log[i][2], FALSE>>
              /\ res.op \in {"allocate", "cache_allocate"}

\* An allocate has been aborted, its kill of the daemon has failed and the
\* delete of the cgroup has been made after it.
C25_Witness ==
    /\ res.op = "allocate"
    /\ res.err.kind = "AbortedAllocateCell"
    /\ Len(log) = 5
    /\ log[4] = <<"kill", res.target, FALSE>>
    /\ log[5][1] = "delete" /\ log[5][2] = res.target

\* C26: the tree is drained bottom-up.  Cell::free (Cell::kill) on an
\* Allocated cell makes only shutdown (kill) and delete calls; every call on
\* a descendant is made before any call on an ancestor; the daemon of every
\* Allocated cell of the subtree is asked to stop, and the cgroup of a cell
\* is deleted right after its daemon stopped and not at all if that failed;
\* the calls on the cell itself are the last ones.
C26_DrainedBottomUp ==
    [][(res'.op \in {"free", "kill"} /\ cells[res'.target] = Allocated) =>
         LET t == res'.target
             n == Len(log')
             stop == StopCall(res'.op)
         IN /\ n >= 1
            /\ \A i \in 1..n : log'[i][1] \in {stop, "delete"} /\ log'[i][2] \in Subtree(t)
            /\ \A i, j \in 1..n : IsUnder(log'[i][2], log'[j][2]) => i < j
            /\ \A q \in Subtree(t) :
                 cells[q] = Allocated => \E i \in 1..n : log'[i][1] = stop /\ log'[i][2] = q
            /\ \A i \in 1..n :
                 log'[i][1] = stop =>
                   IF log'[i][3]
                   THEN i < n /\ log'[i + 1][1] = "delete" /\ log'[i + 1][2] = log'[i][2]
                   ELSE \A j \in 1..n : ~(log'[j][1] = "delete" /\ log'[j][2] = log'[i][2])
            /\ \A i \in 1..n : log'[i][1] = "delete" => (i >= 2 /\ log'[i - 1] = <<stop, log'[i][2], TRUE>>)
            /\ log'[n][2] = t]_vars

\* A kill of a with a/b and a/b/c allocated has killed and deleted a/b/c,
\* then a/b, then a.
C26_Witness ==
    /\ res.op = "kill"
    /\ res.target = <<"a">>
    /\ res.was = Allocated
    /\ res.err = OkErr
    /\ log = << <<"kill", <<"a", "b", "c">>, TRUE>>, <<"delete", <<"a", "b", "c">>, TRUE>>,
                <<"kill", <<"a", "b">>, TRUE>>, <<"delete", <<"a", "b">>, TRUE>>,
                <<"kill", <<"a">>, TRUE>>, <<"delete", <<"a">>, TRUE>> >>

BroadcastCall(op) == IF op = "broadcast_free" THEN "shutdown" ELSE "kill"

\* C28: a broadcast_free or broadcast_kill on the children of an Allocated
\* Cell reaches every entry whatever the order and whatever fails.  The
\* entries of the map are the same afterwards and the Cell itself is not
\* touched; the daemon of every Allocated entry is asked to stop; an entry
\* that was not Allocated is Freed; and an entry is left other than Freed
\* only if a call in its own subtree failed.  On a Cell that is not
\* Allocated the broadcast does nothing.
C28_BroadcastReachesEveryEntry ==
    [][res'.op \in {"broadcast_free", "broadcast_kill"} =>
         LET p == res'.target
             kids == {c \in Paths : IsChildOf(c, p)}
             n == Len(log')
         IN /\ cells'[p] = cells[p]
            /\ \A i \in 1..n : log'[i][2] # p /\ log'[i][1] \in {BroadcastCall(res'.op), "delete"}
            /\ \A c \in kids : (cells'[c] = NoCell) <=> (cells[c] = NoCell)
            /\ cells[p] = Allocated =>
                 \A c \in kids :
                   /\ cells[c] = Allocated =>
                        \E i \in 1..n : log'[i][1] = BroadcastCall(res'.op) /\ log'[i][2] = c
                   /\ cells[c] \in {Unallocated, Freed} => cells'[c] = Freed
                   /\ (cells[c] # NoCell /\ cells'[c] # Freed) =>
                        \E i \in 1..n : log'[i][2] \in Subtree(c) /\ ~log'[i][3]
            /\ cells[p] # Allocated =>
                 (log' = <<>> /\ UNCHANGED <<cells, dir, proc, attached>>)]_vars

\* A broadcast_free whose first entry a/b failed to shut down has gone on
\* and freed a/c.
C28_Witness ==
    /\ res.op = "broadcast_free"
    /\ res.target = <<"a">>
    /\ log = << <<"shutdown", <<"a", "b">>, FALSE>>, <<"shutdown", <<"a", "c">>, TRUE>>,
                <<"delete", <<"a", "c">>, TRUE>> >>
    /\ cells[<<"a", "b">>] = Allocated
    /\ cells[<<"a", "c">>] = Freed
    /\ cells[<<"a">>] = Allocated

\* The failed call i of the last operation was returned to the caller in an
\* error that names its cell, or was written to the log.
Returned(i) == res.err.name = log[i][2] /\ res.err.source = log[i][1]

WasLogged(i) == \E h \in 1..Len(handled) : handled[h] = <<"logged", log[i][1], log[i][2]>>

WasDiscarded(i) == \E h \in 1..Len(handled) : handled[h] = <<"discarded", log[i][1], log[i][2]>>

\* C29 as stated: no error is silently swallowed.  Every call on a nested
\* daemon or a cgroup that failed in the last operation was returned to the
\* caller in an error naming the cell or was logged, and no error was dropped
\* unlogged.
C29_NoErrorSwallowed ==
    /\ \A i \in 1..Len(log) : ~log[i][3] => (Returned(i) \/ WasLogged(i))
    /\ \A h \in 1..Len(handled) : handled[h][1] = "logged"

\* C29 amended: a failed call of allocate, free or kill on the cell itself
\* is returned in an error that names the cell, but for the kill and the
\* delete of the abort branch of allocate, whose errors are dropped unlogged;
\* the error of a descendant in a broadcast is logged and not returned; the
\* error of the kill() inside Drop is dropped unlogged.  No error is
\* dropped anywhere else.
C29_ErrorsReturnedLoggedOrBestEffort ==
    /\ \A i \in 1..Len(log) : ~log[i][3] => (Returned(i) \/ WasLogged(i) \/ WasDiscarded(i))
    /\ \A i \in 1..Len(log) :
         (~log[i][3] /\ log[i][2] = res.target /\ res.op \in {"allocate", "free", "kill"}) =>
           \/ Returned(i)
           \/ /\ res.err = Err("AbortedAllocateCell", res.target, "add_task")
              /\ log[i][1] \in {"kill", "delete"}
              /\ WasDiscarded(i)
    /\ \A h \in 1..Len(handled) :
         /\ handled[h][1] \in {"logged", "discarded"}
         /\ handled[h][1] = "logged" =>
              /\ IsUnder(handled[h][3], res.target)
              /\ res.op \in {"free", "kill", "drop", "cache_free", "broadcast_free", "broadcast_kill"}
         /\ handled[h][1] = "discarded" =>
              /\ handled[h][2] \in {"kill", "delete"}
              /\ \/ res.err = Err("AbortedAllocateCell", handled[h][3], "add_task")
                 \/ res.op \in {"drop", "cache_free"}
         /\ \E i \in 1..Len(log) : log[i] = <<handled[h][2], handled[h][3], FALSE>>

\* An allocate has been aborted and the error of its best-effort kill has
\* been dropped.
C29_Witness ==
    /\ res.op = "allocate"
    /\ res.err = Err("AbortedAllocateCell", res.target, "add_task")
    /\ handled = << <<"discarded", "kill", res.target>> >>
    /\ LogHas("kill", res.target, FALSE)
    /\ LogHas("delete", res.target, TRUE)

\* The daemon of the Allocated Cell p has exited: a shutdown or kill of it
\* has returned success (nothing else ends the daemon of an Allocated Cell).
DaemonStopped(p) == cells[p] = Allocated /\ ~proc[p]

\* C30: no kernel resource of a Cell is released twice.  Once a shutdown or
\* kill of the Cell's daemon has returned success, no operation calls
\* shutdown or kill on it again, neither a later operation nor the same one;
\* once the delete of its cgroup has returned success, no delete is called
\* on it again.
C30_NoDoubleRelease ==
    [][\A p \in Paths :
         LET n == Len(log')
         IN /\ DaemonStopped(p) =>
                 \A i \in 1..n : ~(log'[i][1] \in {"shutdown", "kill"} /\ log'[i][2] = p)
            /\ cells[p] = Freed => \A i \in 1..n : log'[i][2] # p
            /\ \A i, j \in 1..n :
                 (i < j /\ log'[i][2] = p /\ log'[j][2] = p /\ log'[i][3]) =>
                   /\ ~(log'[i][1] \in {"shutdown", "kill"} /\ log'[j][1] \in {"shutdown", "kill"})
                   /\ ~(log'[i][1] = "delete" /\ log'[j][1] = "delete")]_vars

\* The Cells stored in the child cache of the Cell p.
ChildrenOf(p) == {c \in Paths : IsChildOf(c, p) /\ cells[c] # NoCell}

\* C31: in every reachable state every Cell stored in the child cache of an
\* Allocated Cell is itself Allocated: an Allocated parent holds no Freed and
\* no Unallocated child, also after a free or kill of the parent that failed
\* at its daemon or at its cgroup after the children were broadcast-freed.
C31_AllocatedHoldsAllocated ==
    \A p \in Paths : cells[p] = Allocated => \A c \in ChildrenOf(p) : cells[c] = Allocated

\* C32: an Executable operation that returns an error leaves the state as it
\* was.  A start() whose spawn failed leaves the executable in Init with
\* nothing spawned, and a later start() can still spawn; a kill() whose kill
\* or wait failed leaves it in Started with both log tasks still owned.  A
\* kill() that returns a status from Started has waited for the child's exit
\* and joined both log tasks when the state is Stopped.
C32_ErrorKeepsState ==
    [][\A x \in ExeNames :
         /\ (exe_res'.name = x /\ exe_res'.ret.kind = "Err") =>
              /\ exe_res'.op \in {"start", "kill"}
              /\ executables'[x].state = executables[x].state
              /\ exe_res'.op = "start" =>
                   /\ executables'[x].state = ExeInit
                   /\ executables'[x].spawns = 0
                   /\ executables'[x].tasks = 0
                   /\ ExecutableStart(executables'[x], FALSE).e.state = ExeStarted
              /\ exe_res'.op = "kill" =>
                   /\ executables'[x].state = ExeStarted
                   /\ executables'[x].tasks = 2
         /\ (exe_res'.name = x /\ exe_res'.op = "kill" /\ exe_res'.ret.kind = "Ok"
               /\ executables[x].state = ExeStarted) =>
              /\ executables'[x].state = ExeStopped
              /\ exe_res'.ret.val = executables'[x].status
              /\ executables'[x].reaped
              /\ ~executables'[x].alive
              /\ executables'[x].tasks = 0
         /\ executables'[x].state = ExeStopped =>
              executables'[x].reaped /\ executables'[x].tasks = 0]_vars

\* A kill() has failed at wait() on a Started executable, which is still
\* Started with its two log tasks, while another executable has been killed
\* into Stopped with its log tasks joined.
C32_Witness ==
    /\ exe_res.op = "kill"
    /\ exe_res.ret = Ret("Err", "wait")
    /\ exe_res.was = ExeStarted
    /\ executables[exe_res.name].state = ExeStarted
    /\ executables[exe_res.name].tasks = 2
    /\ \E y \in ExeNames \ {exe_res.name} :
         executables[y].state = ExeStopped /\ executables[y].tasks = 0

====
